---- MODULE Spec2Model ----
(***************************************************************************)
(* A model of 0x00-personal_data: the bcrypt wrappers of                   *)
(* encrypt_password.py and the log redaction of filtered_logger.py         *)
(* (filter_datum, RedactingFormatter, get_logger, get_db, main).           *)
(*                                                                         *)
(* Text is modelled as sequences of one-character strings, so that the     *)
(* regular expression of filter_datum can be run character by character.   *)
(***************************************************************************)
EXTENDS Integers, Sequences, FiniteSets, TLC

VARIABLES
    \* one call of filter_datum(fields, redaction, message, separator)
    fields, redaction, message, separator, result, fdPc,
    \* one call of RedactingFormatter(fields).format(record)
    formatter, record, out, fmtPc,
    \* hash_password / is_valid
    password, stored, candidate, checked, verdict, pwPc,
    \* the process that runs main: the logging module's "user_data" logger,
    \* the data source, the sink (the stream of the StreamHandlers)
    logger, openConnections, cursorOpen, rows, rowIdx, sink, mainPc, runs,
    otherCalls

vars == <<fields, redaction, message, separator, result, fdPc,
          formatter, record, out, fmtPc,
          password, stored, candidate, checked, verdict, pwPc,
          logger, openConnections, cursorOpen, rows, rowIdx, sink, mainPc, runs,
          otherCalls>>

fdVars == <<fields, redaction, message, separator, result, fdPc>>
fmtVars == <<formatter, record, out, fmtPc>>
pwVars == <<password, stored, candidate, checked, verdict, pwPc>>
mainVars == <<logger, openConnections, cursorOpen, rows, rowIdx, sink, mainPc, runs,
              otherCalls>>

----------------------------------------------------------------------------
(* Bounds of the model *)

\* longest message handed to filter_datum
MaxMsgLen == 6

----------------------------------------------------------------------------
(* Text helpers *)

\* All sequences over S of length at most n.
SeqsUpTo(S, n) == UNION {[1..k -> S] : k \in 0..n}

\* t occurs in s starting at index i.
StartsWithAt(s, i, t) ==
    /\ i >= 1
    /\ i + Len(t) - 1 <= Len(s)
    /\ \A k \in 1..Len(t) : s[i + k - 1] = t[k]

Elems(s) == {s[k] : k \in 1..Len(s)}

----------------------------------------------------------------------------
(* filtered_logger.py: patterns, filter_datum *)

\* patterns['extract'](fields, sep): r'(?P<field>{})=[^{}]*' with
\* '|'.join(fields) and sep filled in.  The pattern is kept parsed: the
\* alternatives of the group, in order, and the characters the value may not
\* contain.  '|'.join([]) is the empty string, and the group (?P<field>) then
\* has one alternative, the empty one.
extract(flds, sep) ==
    [alts |-> IF flds = <<>> THEN << <<>> >> ELSE flds,
     stop |-> Elems(sep)]

\* patterns['replace'](redaction): r'\g<field>={}': the text the group
\* matched, "=", the redaction.
replace(red) == [eq |-> <<"=">>, token |-> red]

\* The first alternative of the group with which the pattern matches at i
\* (0: none).  After the group the pattern needs "=", and [^sep]* then matches
\* whatever follows, so an alternative fails only on its text or on the "=".
MatchAt(pat, msg, i) ==
    LET ok == {k \in 1..Len(pat.alts) : StartsWithAt(msg, i, pat.alts[k] \o <<"=">>)}
    IN  IF ok = {} THEN 0 ELSE CHOOSE k \in ok : \A j \in ok : k <= j

\* [^sep]* is greedy: from j it runs to the next stop character or the end.
\* The index behind the value.
ValueEnd(pat, msg, j) ==
    LET at == {e \in j..Len(msg) : msg[e] \in pat.stop}
    IN  IF at = {} THEN Len(msg) + 1 ELSE CHOOSE e \in at : \A x \in at : e <= x

\* The leftmost index from i on at which the pattern matches (0: none).
NextMatch(pat, msg, i) ==
    LET at == {p \in i..Len(msg) : MatchAt(pat, msg, p) # 0}
    IN  IF at = {} THEN 0 ELSE CHOOSE p \in at : \A x \in at : p <= x

\* re.sub(pattern, repl, message) from index i on: the text up to the
\* leftmost match is copied, the match is replaced by the group's text, "="
\* and the token, and the scan goes on behind the match; matches do not
\* overlap.
RECURSIVE SubFrom(_, _, _, _)
SubFrom(pat, repl, msg, i) ==
    LET p == NextMatch(pat, msg, i)
    IN  IF p = 0 THEN SubSeq(msg, i, Len(msg))
        ELSE LET k == MatchAt(pat, msg, p)
             IN  SubSeq(msg, i, p - 1) \o pat.alts[k] \o repl.eq \o repl.token
                 \o SubFrom(pat, repl, msg,
                            ValueEnd(pat, msg, p + Len(pat.alts[k]) + 1))

\* A plausible slip: re.sub with count=1, only the first match replaced.
re_sub_first_only(pat, repl, msg) ==
    LET p == NextMatch(pat, msg, 1)
    IN  IF p = 0 THEN msg
        ELSE LET k == MatchAt(pat, msg, p)
                 e == ValueEnd(pat, msg, p + Len(pat.alts[k]) + 1)
             IN  SubSeq(msg, 1, p - 1) \o pat.alts[k] \o repl.eq \o repl.token
                 \o SubSeq(msg, e, Len(msg))

re_sub(pat, repl, msg) == SubFrom(pat, repl, msg, 1)

filter_datum(flds, red, msg, sep) ==
    re_sub(extract(flds, sep), replace(red), msg)

----------------------------------------------------------------------------
(* Inputs of a filter_datum call *)

\* "d" is a suffix of "id": a field name inside a longer key.
Chars == {"i", "d", "=", ";"}
FieldLists == { <<>>, << <<"d">> >>, << <<"i", "d">> >>,
                << <<"d">>, <<"i", "d">> >>, << <<"i", "d">>, <<"d">> >> }
Tokens == { <<"*">>, <<"*", "*", "*">> }
Separators == { <<";">> }
Messages == SeqsUpTo(Chars, MaxMsgLen)

IdleFd ==
    /\ fields = <<>> /\ redaction = <<>> /\ message = <<>>
    /\ separator = <<>> /\ result = <<>> /\ fdPc = "idle"
IdleFmt ==
    /\ formatter = <<>> /\ record = <<>> /\ out = <<>> /\ fmtPc = "idle"
IdlePw ==
    /\ password = <<>> /\ stored = <<>> /\ candidate = <<>>
    /\ checked = <<>> /\ verdict = "none" /\ pwPc = "idle"
IdleMain ==
    /\ logger = <<>> /\ openConnections = 0 /\ cursorOpen = FALSE
    /\ rows = <<>> /\ rowIdx = 0 /\ sink = <<>> /\ mainPc = "idle" /\ runs = 0
    /\ otherCalls = 0

InitRedact ==
    /\ fields \in FieldLists
    /\ redaction \in Tokens
    /\ message \in Messages
    /\ separator \in Separators
    /\ result = <<>>
    /\ fdPc = "call"
    /\ IdleFmt /\ IdlePw /\ IdleMain

FilterDatum ==
    /\ fdPc = "call"
    /\ result' = filter_datum(fields, redaction, message, separator)
    /\ fdPc' = "done"
    /\ UNCHANGED <<fields, redaction, message, separator>>
    /\ UNCHANGED <<fmtVars, pwVars, mainVars>>

NextRedact == FilterDatum

SpecRedact == InitRedact /\ [][NextRedact]_vars

----------------------------------------------------------------------------
(* What the claims about filter_datum speak of *)

\* The places of msg where `f=` stands, f one of the fields.
Occurrences(flds, msg) ==
    {p \in 1..Len(msg) : \E f \in Elems(flds) : StartsWithAt(msg, p, f \o <<"=">>)}

\* The index behind the value of an occurrence whose "=" is at index e - 1:
\* the next separator character from e on, or the end.
NextSep(msg, sep, e) ==
    LET at == {j \in e..Len(msg) : msg[j] \in Elems(sep)}
    IN  IF at = {} THEN Len(msg) + 1 ELSE CHOOSE j \in at : \A k \in at : j <= k

\* Index j lies in the value part of some `f=value` occurrence.
InValue(flds, msg, sep, j) ==
    \E p \in 1..Len(msg) : \E f \in Elems(flds) :
        /\ StartsWithAt(msg, p, f \o <<"=">>)
        /\ p + Len(f) + 1 <= j
        /\ j < NextSep(msg, sep, p + Len(f) + 1)

\* The occurrences that do not lie inside the value of another occurrence.
FreeOccurrences(flds, msg, sep) ==
    {p \in Occurrences(flds, msg) : ~InValue(flds, msg, sep, p)}

\* The places of res where `f=` stands followed by the redaction token and
\* then a separator or the end.
RedactedOccurrences(flds, red, sep, res) ==
    {p \in 1..Len(res) : \E f \in Elems(flds) :
        /\ StartsWithAt(res, p, f \o <<"=">> \o red)
        /\ LET e == p + Len(f) + 1 + Len(red)
           IN  e > Len(res) \/ res[e] \in Elems(sep)}

\* The message cut at the separator characters: the segments between them.
RECURSIVE SplitAt(_, _, _)
SplitAt(msg, sep, i) ==
    LET e == NextSep(msg, sep, i)
    IN  IF e > Len(msg) THEN <<SubSeq(msg, i, Len(msg))>>
        ELSE <<SubSeq(msg, i, e - 1)>> \o SplitAt(msg, sep, e + 1)

\* A segment with the text behind its first `f=` replaced by the token.
RedactSegment(flds, red, seg) ==
    LET occ == Occurrences(flds, seg)
    IN  IF occ = {} THEN seg
        ELSE LET p == CHOOSE q \in occ : \A r \in occ : q <= r
                 e == CHOOSE j \in p..Len(seg) :
                          /\ seg[j] = "="
                          /\ \E f \in Elems(flds) :
                                 /\ StartsWithAt(seg, p, f \o <<"=">>)
                                 /\ j = p + Len(f)
             IN  SubSeq(seg, 1, e) \o red

RECURSIVE JoinWith(_, _, _)
JoinWith(segs, sepChar, k) ==
    IF k > Len(segs) THEN <<>>
    ELSE (IF k = 1 THEN <<>> ELSE <<sepChar>>) \o segs[k] \o JoinWith(segs, sepChar, k + 1)

\* Segment by segment: the expected result for a one-character separator.
RedactSegments(flds, red, msg, sep) ==
    LET segs == SplitAt(msg, sep, 1)
    IN  JoinWith([k \in 1..Len(segs) |-> RedactSegment(flds, red, segs[k])], sep[1], 1)

\* s without the characters of the redaction token.
WithoutToken(s, red) ==
    LET keep(c) == c \notin Elems(red) IN SelectSeq(s, keep)

\* The characters of msg outside every value part, in order.
OutsideValues(flds, msg, sep) ==
    LET idx == {j \in 1..Len(msg) : ~InValue(flds, msg, sep, j)}
        RECURSIVE pick(_)
        pick(j) == IF j > Len(msg) THEN <<>>
                   ELSE (IF j \in idx THEN <<msg[j]>> ELSE <<>>) \o pick(j + 1)
    IN  pick(1)

\* t occurs somewhere in s.
Contains(s, t) == \E i \in 1..(Len(s) + 1) : StartsWithAt(s, i, t)

\* msg is one `key=value` pair (a trailing separator allowed) whose key is
\* longer than f and contains it.
OnlyKeyContains(msg, sep, f) ==
    \E n \in 1..Len(msg) :
        /\ msg[n] = "="
        /\ \A j \in 1..Len(msg) : msg[j] = "=" => j = n
        /\ \A j \in 1..Len(msg) : msg[j] \in Elems(sep) => j = Len(msg) /\ j > n
        /\ LET key == SubSeq(msg, 1, n - 1)
           IN  Len(key) > Len(f) /\ Contains(key, f)

\* C3: with an empty fields list filter_datum returns the message unchanged.
C3_EmptyFieldsNoOp ==
    (fdPc = "done" /\ fields = <<>>) => result = message

\* C4: a field name that is only a part of the one, longer key of the message
\* does not match: the value of that key is left as it is.
C4_LongerKeyUntouched ==
    \A f \in Elems(fields) :
        (fdPc = "done" /\ fields = <<f>> /\ OnlyKeyContains(message, separator, f))
            => result = message

\* C5 as stated: for a non-empty list of plain field names every occurrence
\* of `f=` in the message keeps its prefix in the result and is followed
\* there by the redaction token up to the next separator or the end.
C5_EveryOccurrenceRedacted ==
    (fdPc = "done" /\ fields # <<>>) =>
        Cardinality(RedactedOccurrences(fields, redaction, separator, result))
            = Cardinality(Occurrences(fields, message))

\* C5 as amended: the same for every occurrence of `f=` that does not lie
\* inside the value of an earlier occurrence; an occurrence inside a value is
\* replaced together with that value.  The result is then the message with,
\* in each separator-delimited segment, the text behind the first `f=`
\* replaced by the token.
C5_FreeOccurrencesRedacted ==
    (fdPc = "done" /\ fields # <<>>) =>
        /\ result = RedactSegments(fields, redaction, message, separator)
        /\ Cardinality(RedactedOccurrences(fields, redaction, separator, result))
               = Cardinality(FreeOccurrences(fields, message, separator))
        /\ Occurrences(fields, result)
               = RedactedOccurrences(fields, redaction, separator, result)

C5_Witness ==
    /\ fdPc = "done"
    /\ fields = << <<"d">> >>
    /\ redaction = <<"*">>
    /\ message = <<"d", "=", "i", ";", "d", "=">>
    /\ result = <<"d", "=", "*", ";", "d", "=", "*">>

\* C6: the characters of the message outside the value parts of the `f=value`
\* occurrences are the characters of the result outside the tokens, in the
\* same order, and a message with no `f=` comes back unchanged.
C6_OutsideValuesUnchanged ==
    fdPc = "done" =>
        /\ WithoutToken(result, redaction) = OutsideValues(fields, message, separator)
        /\ (Occurrences(fields, message) = {} => result = message)

\* C6 for a non-empty fields list, where it holds.
C6_NonEmptyFieldsFrame ==
    (fdPc = "done" /\ fields # <<>>) =>
        /\ WithoutToken(result, redaction) = OutsideValues(fields, message, separator)
        /\ (Occurrences(fields, message) = {} => result = message)


----------------------------------------------------------------------------
(* filtered_logger.py: RedactingFormatter *)

REDACTION == <<"*", "*", "*">>
SEPARATOR == <<";">>
\* FORMAT: "[HOLBERTON] %(name)s %(levelname)s %(asctime)-15s: %(message)s"
FORMAT_PREFIX == <<"[", "H", "O", "L", "B", "E", "R", "T", "O", "N", "]", " ">>
AsctimeWidth == 15

\* %-15s: left-justified, padded with blanks to the width, never cut.
RECURSIVE LJust(_, _)
LJust(s, w) == IF Len(s) >= w THEN s ELSE LJust(s \o <<" ">>, w)

\* logging.Formatter.format for FORMAT, for a record without exception or
\* stack information: the template filled in with the record's name, level
\* name, formatted creation time and message.
Formatter_format(rec) ==
    FORMAT_PREFIX \o rec.name \o <<" ">> \o rec.levelname \o <<" ">>
        \o LJust(rec.asctime, AsctimeWidth) \o <<":", " ">> \o rec.msg

\* A plausible slip: the message is redacted before it is rendered.
RedactingFormatter_format_message_only(flds, rec) ==
    Formatter_format([rec EXCEPT !.msg = filter_datum(flds, REDACTION, rec.msg, SEPARATOR)])

\* RedactingFormatter.format: super().format(record), then filter_datum on
\* the rendered text.
RedactingFormatter_format(flds, rec) ==
    LET msg == Formatter_format(rec)
    IN  filter_datum(flds, REDACTION, msg, SEPARATOR)

\* longest message body of a formatted record
MaxBodyLen == 3

S_user_data == <<"u", "s", "e", "r", "_", "d", "a", "t", "a">>
S_INFO == <<"I", "N", "F", "O">>
S_WARNING == <<"W", "A", "R", "N", "I", "N", "G">>
\* formatTime with the default date format: 23 characters
Times == { <<"2", "0", "1", "9", "-", "1", "1", "-", "1", "9", " ", "1", "8", ":", "2", "4", ":", "2", "5", ",", "1", "0", "5">>,
           <<"2", "0", "1", "9", "-", "1", "1", "-", "1", "9", " ", "1", "8", ":", "2", "4", ":", "2", "6", ",", "0", "0", "1">> }
\* a logger may have any name, also one that reads like a field
LoggerNames == { S_user_data, <<"d", "=", "i">> }
Records == [name : LoggerNames, levelname : {S_INFO, S_WARNING},
            asctime : Times, msg : SeqsUpTo(Chars, MaxBodyLen)]

InitFormat ==
    /\ formatter \in FieldLists
    /\ record \in Records
    /\ out = <<>>
    /\ fmtPc = "call"
    /\ IdleFd /\ IdlePw /\ IdleMain

Format ==
    /\ fmtPc = "call"
    /\ out' = RedactingFormatter_format(formatter, record)
    /\ fmtPc' = "done"
    /\ UNCHANGED <<formatter, record>>
    /\ UNCHANGED <<fdVars, pwVars, mainVars>>

NextFormat == Format

SpecFormat == InitFormat /\ [][NextFormat]_vars

\* The pattern built from flds matches somewhere in text.
HasMatch(flds, text, sep) ==
    \E i \in 1..Len(text) : MatchAt(extract(flds, sep), text, i) # 0

----------------------------------------------------------------------------
(* encrypt_password.py *)

\* longest password, in code points
MaxPwLen == 2
\* number of different salts gensalt may return
MaxSalt == 2
\* hash_password calls on the password
MaxHashes == 2

\* 'a' and 'e' with an acute accent: one and two bytes in UTF-8
CodePoints == {97, 233}
Passwords == SeqsUpTo(CodePoints, MaxPwLen)

\* str.encode('utf-8') for code points below 2048.
RECURSIVE encode_utf8(_)
encode_utf8(p) ==
    IF p = <<>> THEN <<>>
    ELSE LET c == Head(p)
         IN  (IF c < 128 THEN <<c>> ELSE <<192 + (c \div 64), 128 + (c % 64)>>)
             \o encode_utf8(Tail(p))

\* str.encode('latin-1') for code points below 256: one byte each.
encode_latin1(p) == p

BcryptVersions == {"2a", "2b", "2x", "2y"}
BcryptDefaultRounds == 12
NoDigest == -1

\* bcrypt.gensalt(): "$2b$12$" and a random salt; s is the random draw.
gensalt(s) == [version |-> "2b", cost |-> BcryptDefaultRounds, salt |-> s, digest |-> NoDigest]

\* What bcrypt accepts as the salt argument of hashpw: a known version, a cost
\* in range, a salt.  A full hash value is accepted too; its digest is ignored.
ValidSalt(h) == h.version \in BcryptVersions /\ h.cost \in 4..31 /\ h.salt > 0

\* The digest of bcrypt: a function of the bytes, the salt and the cost.
RECURSIVE Mix(_, _)
Mix(acc, bytes) ==
    IF bytes = <<>> THEN acc
    ELSE Mix((acc * 33 + Head(bytes)) % 65536, Tail(bytes))

\* bcrypt.hashpw(password, salt) for a valid salt.
hashpw(bytes, h) ==
    [version |-> h.version, cost |-> h.cost, salt |-> h.salt,
     digest |-> Mix(h.salt * 64 + h.cost, bytes)]

\* bcrypt.checkpw(password, hashed_password): hashpw with the hashed password
\* as the salt, which raises ValueError ("Invalid salt") when it is not one,
\* then a comparison of the two.
checkpw(bytes, hashed) ==
    IF ~ValidSalt(hashed) THEN "ValueError"
    ELSE IF hashpw(bytes, hashed) = hashed THEN "True" ELSE "False"

\* hash_password(password), s being the draw of gensalt().
hash_password(pw, s) == hashpw(encode_utf8(pw), gensalt(s))

\* A plausible slip: the password encoded differently than when hashing.
is_valid_latin1(hashed, pw) == checkpw(encode_latin1(pw), hashed)

\* is_valid(hashed_password, password): the result of checkpw, or the error
\* it raises: there is no try/except around it.
is_valid(hashed, pw) == checkpw(encode_utf8(pw), hashed)

\* Hash values that are no bcrypt hash: empty bytes, and an unknown version.
MalformedHashes ==
    { [version |-> "", cost |-> 0, salt |-> 0, digest |-> NoDigest],
      [version |-> "1z", cost |-> BcryptDefaultRounds, salt |-> 1, digest |-> 7] }

\* no hash handed to is_valid yet
NoHash == [version |-> "", cost |-> 0, salt |-> 0, digest |-> NoDigest]

InitPw ==
    /\ password \in Passwords
    /\ stored = <<>>
    /\ candidate = <<>>
    /\ checked = NoHash
    /\ verdict = "none"
    /\ pwPc = "ready"
    /\ IdleFd /\ IdleFmt /\ IdleMain

\* hash_password(password): one more hash of the password is kept.
HashPassword ==
    /\ pwPc \in {"ready", "verified"}
    /\ Len(stored) < MaxHashes
    /\ \E s \in 1..MaxSalt :
           stored' = Append(stored, hash_password(password, s))
    /\ UNCHANGED <<password, candidate, checked, verdict, pwPc>>
    /\ UNCHANGED <<fdVars, fmtVars, mainVars>>

\* is_valid on a hash hash_password returned.
IsValidStored ==
    /\ pwPc \in {"ready", "verified"}
    /\ \E k \in 1..Len(stored) : \E cand \in Passwords :
           /\ checked' = stored[k]
           /\ candidate' = cand
           /\ verdict' = is_valid(stored[k], cand)
    /\ pwPc' = "verified"
    /\ UNCHANGED <<password, stored>>
    /\ UNCHANGED <<fdVars, fmtVars, mainVars>>

\* is_valid on a hash value that came from elsewhere and is malformed.
IsValidSupplied ==
    /\ pwPc \in {"ready", "verified"}
    /\ \E h \in MalformedHashes : \E cand \in Passwords :
           /\ checked' = h
           /\ candidate' = cand
           /\ verdict' = is_valid(h, cand)
    /\ pwPc' = "verified"
    /\ UNCHANGED <<password, stored>>
    /\ UNCHANGED <<fdVars, fmtVars, mainVars>>

NextPw == HashPassword \/ IsValidStored \/ IsValidSupplied

SpecPw == InitPw /\ [][NextPw]_vars

\* C1: is_valid(hash_password(P), P) is true for every password P and every
\* salt, so every hash of P, whatever its salt, verifies against P.
C1_HashThenVerify ==
    (pwPc = "verified" /\ checked \in Elems(stored) /\ candidate = password)
        => verdict = "True"

\* Two hashes of the password with different salts, the second one verified.
C1_Witness ==
    /\ pwPc = "verified"
    /\ Len(stored) = 2
    /\ stored[1] # stored[2]
    /\ stored[1].salt # stored[2].salt
    /\ checked = stored[2]
    /\ candidate = password
    /\ password = <<233, 97>>
    /\ verdict = "True"

\* C2: is_valid always ends with a boolean and never raises.
C2_IsValidNeverRaises ==
    pwPc = "verified" => verdict \in {"True", "False"}


----------------------------------------------------------------------------
(* filtered_logger.py: PII_FIELDS, get_logger, get_db, main *)

PII_FIELDS == << <<"n", "a", "m", "e">>, <<"e", "m", "a", "i", "l">>, <<"p", "h", "o", "n", "e">>, <<"s", "s", "n">>, <<"p", "a", "s", "s", "w", "o", "r", "d">> >>

\* main: fields.split(',')
COLUMNS == << <<"n", "a", "m", "e">>, <<"e", "m", "a", "i", "l">>, <<"p", "h", "o", "n", "e">>, <<"s", "s", "n">>, <<"p", "a", "s", "s", "w", "o", "r", "d">>,
              <<"i", "p">>, <<"l", "a", "s", "t", "_", "l", "o", "g", "i", "n">>, <<"u", "s", "e", "r", "_", "a", "g", "e", "n", "t">> >>

\* runs of main in the process
MaxRuns == 2
\* rows the query returns
MaxRows == 2
\* get_logger calls made by other callers than main
MaxOtherCalls == 1

\* logging.getLogger("user_data") before anyone configured it.
FreshLogger == [level |-> "NOTSET", propagate |-> TRUE, handlers |-> <<>>]

\* A plausible slip: the handler is attached without the formatter.
get_logger_no_formatter(lg) ==
    [level |-> "INFO", propagate |-> FALSE,
     handlers |-> Append(lg.handlers, [formatter |-> "Formatter", fields |-> <<>>])]

\* get_logger(): a new StreamHandler with a RedactingFormatter(PII_FIELDS) is
\* added to the "user_data" logger on every call; level INFO, no propagation.
get_logger(lg) ==
    [level |-> "INFO", propagate |-> FALSE,
     handlers |-> Append(lg.handlers,
                         [formatter |-> "RedactingFormatter", fields |-> PII_FIELDS])]

\* Handler.format: the handler's formatter, or logging's default "%(message)s".
Handler_format(h, rec) ==
    IF h.formatter = "RedactingFormatter"
    THEN RedactingFormatter_format(h.fields, rec)
    ELSE rec.msg

\* Logger.handle(record) with propagate off: every handler of the logger
\* formats the record and writes the line to its stream.
Logger_handle(lg, rec) ==
    [k \in 1..Len(lg.handlers) |-> Handler_format(lg.handlers[k], rec)]

\* '; '.join('{}={}'.format(column, value) ...) from column k on.
RECURSIVE JoinPairs(_, _)
JoinPairs(row, k) ==
    IF k > Len(COLUMNS) THEN <<>>
    ELSE (IF k = 1 THEN <<>> ELSE <<";", " ">>)
         \o COLUMNS[k] \o <<"=">> \o row[k] \o JoinPairs(row, k + 1)

\* msg = '{};'.format('; '.join(...))
RowMessage(row) == JoinPairs(row, 1) \o <<";">>

\* logging.LogRecord("user_data", logging.INFO, None, None, msg, None, None),
\* created at a time that formats as t.
LogRecord(msg, t) == [name |-> S_user_data, levelname |-> S_INFO, asctime |-> t, msg |-> msg]

\* Rows of the users table, values as str() gives them; none holds a ";".
\* The second one has a user agent that reads like a field.
Rows == { << <<"a">>, <<"b">>, <<"c">>, <<"d">>, <<"e">>, <<"f">>, <<"g">>, <<"h">> >>,
          << <<"a">>, <<"b">>, <<"c">>, <<"d">>, <<"e">>, <<"f">>, <<"g">>,
             <<"x", " ", "n", "a", "m", "e", "=", "y">> >> }
RowSeqs == SeqsUpTo(Rows, MaxRows)

\* what the creation time of a record made by main formats as
Clock == { <<"2", "0", "1", "9", "-", "1", "1", "-", "1", "9", " ", "1", "8", ":", "2", "4", ":", "2", "5", ",", "1", "0", "5">> }

InitMain ==
    /\ logger = FreshLogger
    /\ openConnections = 0
    /\ cursorOpen = FALSE
    /\ rows = <<>>
    /\ rowIdx = 0
    /\ sink = <<>>
    /\ mainPc = "idle"
    /\ runs = 0
    /\ otherCalls = 0
    /\ IdleFd /\ IdleFmt /\ IdlePw

\* get_logger() called by someone else than main.
GetLoggerCall ==
    /\ otherCalls < MaxOtherCalls
    /\ logger' = get_logger(logger)
    /\ otherCalls' = otherCalls + 1
    /\ UNCHANGED <<openConnections, cursorOpen, rows, rowIdx, sink, mainPc, runs>>
    /\ UNCHANGED <<fdVars, fmtVars, pwVars>>

\* main, lines 81-84: the query is built and get_logger() called.  sink holds
\* what was written to the stream since main was entered.
MainStart ==
    /\ mainPc \in {"idle", "returned", "raised"}
    /\ runs < MaxRuns
    /\ runs' = runs + 1
    /\ logger' = get_logger(logger)
    /\ rows' = <<>>
    /\ rowIdx' = 0
    /\ sink' = <<>>
    /\ mainPc' = "get_db"
    /\ UNCHANGED <<openConnections, cursorOpen, otherCalls>>
    /\ UNCHANGED <<fdVars, fmtVars, pwVars>>

\* main, line 85: get_db() returns a connection.
GetDb ==
    /\ mainPc = "get_db"
    /\ openConnections' = openConnections + 1
    /\ mainPc' = "cursor"
    /\ UNCHANGED <<logger, cursorOpen, rows, rowIdx, sink, runs, otherCalls>>
    /\ UNCHANGED <<fdVars, fmtVars, pwVars>>

\* mysql.connector.connect raises: no connection, the error leaves main.
GetDbFails ==
    /\ mainPc = "get_db"
    /\ mainPc' = "raised"
    /\ UNCHANGED <<logger, openConnections, cursorOpen, rows, rowIdx, sink, runs, otherCalls>>
    /\ UNCHANGED <<fdVars, fmtVars, pwVars>>

\* main, line 87: with connection.cursor() as cursor.
OpenCursor ==
    /\ mainPc = "cursor"
    /\ cursorOpen' = TRUE
    /\ mainPc' = "execute"
    /\ UNCHANGED <<logger, openConnections, rows, rowIdx, sink, runs, otherCalls>>
    /\ UNCHANGED <<fdVars, fmtVars, pwVars>>

\* main, line 88: cursor.execute(query).
Execute ==
    /\ mainPc = "execute"
    /\ mainPc' = "fetch"
    /\ UNCHANGED <<logger, openConnections, cursorOpen, rows, rowIdx, sink, runs, otherCalls>>
    /\ UNCHANGED <<fdVars, fmtVars, pwVars>>

\* main, line 89: rows = cursor.fetchall().
Fetch ==
    /\ mainPc = "fetch"
    /\ rows' \in RowSeqs
    /\ rowIdx' = 1
    /\ mainPc' = "loop"
    /\ UNCHANGED <<logger, openConnections, cursorOpen, sink, runs, otherCalls>>
    /\ UNCHANGED <<fdVars, fmtVars, pwVars>>

\* execute or fetchall raises: the with statement closes the cursor and the
\* error leaves main.  Nothing closes the connection.
QueryFails ==
    /\ mainPc \in {"execute", "fetch"}
    /\ cursorOpen' = FALSE
    /\ mainPc' = "raised"
    /\ UNCHANGED <<logger, openConnections, rows, rowIdx, sink, runs, otherCalls>>
    /\ UNCHANGED <<fdVars, fmtVars, pwVars>>

\* main, lines 90-100: one row is made a message and handed to the logger.
LogRow ==
    /\ mainPc = "loop"
    /\ rowIdx <= Len(rows)
    /\ \E t \in Clock :
           sink' = sink \o Logger_handle(logger, LogRecord(RowMessage(rows[rowIdx]), t))
    /\ rowIdx' = rowIdx + 1
    /\ UNCHANGED <<logger, openConnections, cursorOpen, rows, mainPc, runs, otherCalls>>
    /\ UNCHANGED <<fdVars, fmtVars, pwVars>>

\* The loop is over: the with statement closes the cursor and main returns.
\* There is no connection.close().
MainReturn ==
    /\ mainPc = "loop"
    /\ rowIdx > Len(rows)
    /\ cursorOpen' = FALSE
    /\ mainPc' = "returned"
    /\ UNCHANGED <<logger, openConnections, rows, rowIdx, sink, runs, otherCalls>>
    /\ UNCHANGED <<fdVars, fmtVars, pwVars>>

NextMain ==
    \/ GetLoggerCall \/ MainStart \/ GetDb \/ GetDbFails \/ OpenCursor
    \/ Execute \/ Fetch \/ QueryFails \/ LogRow \/ MainReturn

SpecMain == InitMain /\ [][NextMain]_vars

\* C8: the connection and the cursor are open while the query runs, and both
\* are released when main ends, by return or by a propagated error.
C8_ConnectionReleased ==
    /\ mainPc \in {"fetch", "loop"} => (openConnections > 0 /\ cursorOpen)
    /\ mainPc \in {"returned", "raised"} => (openConnections = 0 /\ ~cursorOpen)

\* The line the claim expects for a row, logged at a time that formats as t.
ExpectedLine(row, t) ==
    FORMAT_PREFIX \o S_user_data \o <<" ">> \o S_INFO \o <<" ">> \o t \o <<":", " ">>
        \o <<"n", "a", "m", "e">> \o <<"=">> \o REDACTION \o <<";", " ">>
        \o <<"e", "m", "a", "i", "l">> \o <<"=">> \o REDACTION \o <<";", " ">>
        \o <<"p", "h", "o", "n", "e">> \o <<"=">> \o REDACTION \o <<";", " ">>
        \o <<"s", "s", "n">> \o <<"=">> \o REDACTION \o <<";", " ">>
        \o <<"p", "a", "s", "s", "w", "o", "r", "d">> \o <<"=">> \o REDACTION \o <<";", " ">>
        \o <<"i", "p">> \o <<"=">> \o row[6] \o <<";", " ">>
        \o <<"l", "a", "s", "t", "_", "l", "o", "g", "i", "n">> \o <<"=">> \o row[7] \o <<";", " ">>
        \o <<"u", "s", "e", "r", "_", "a", "g", "e", "n", "t">> \o <<"=">> \o row[8] \o <<";">>

\* C9: every run of main writes exactly one line per row, in fetch order, with
\* the five PII values replaced by *** and the three other values unchanged.
C9_OneRedactedLinePerRow ==
    mainPc = "returned" =>
        /\ Len(sink) = Len(rows)
        /\ \A k \in 1..Len(sink) : \E t \in Clock :
               k <= Len(rows) /\ sink[k] = ExpectedLine(rows[k], t)

\* C10: once get_logger() was called, however often, the "user_data" logger
\* has level INFO, does not propagate, and each of its handlers formats with
\* a RedactingFormatter over PII_FIELDS; every line in the sink has each
\* `f=` of a PII field followed by the redaction token.
C10_LoggerRedacts ==
    /\ logger.handlers # <<>> =>
           /\ logger.level = "INFO"
           /\ logger.propagate = FALSE
           /\ \A k \in 1..Len(logger.handlers) :
                  /\ logger.handlers[k].formatter = "RedactingFormatter"
                  /\ logger.handlers[k].fields = PII_FIELDS
    /\ \A k \in 1..Len(sink) :
           LET occ == Occurrences(PII_FIELDS, sink[k])
           IN  /\ occ # {}
               /\ occ = RedactedOccurrences(PII_FIELDS, REDACTION, SEPARATOR, sink[k])

\* Three get_logger calls, and a record handled by all three handlers.
C10_Witness ==
    /\ Len(logger.handlers) = 3
    /\ Len(sink) >= 3
    /\ mainPc = "returned"


====
